---- MODULE Spec2Model ----
(***************************************************************************)
(* Spaced-repetition core of the manga reader backend (src/backend):       *)
(* the srs_reviews / srs_stats / flashcards tables of db.py, the           *)
(* SRSService handlers of services.py and the /flashcards, /srs/due        *)
(* endpoints of app.py.                                                    *)
(*                                                                         *)
(* Numbers.  ease_factor is a Python float (an IEEE-754 double) in the   *)
(* code.  Here a double x is the pair [cent, err] of integers with         *)
(*     100 * x * 2^58 = cent * 2^58 + err,                                 *)
(* that is x = cent/100 + err * 2^-58 / 100: cent is x in hundredths and   *)
(* err is what the binary representation adds to it.  Every double the     *)
(* ease formula produces is a multiple of 2^-58, so the pair is exact, and *)
(* DblAdd and DblTruncMul round as the hardware does (to nearest, ties to  *)
(* even), so that int(interval * ease) is the integer the code stores.     *)
(* Time is epoch milliseconds in the code; here the clock counts ticks of  *)
(* half a day (DayTicks ticks make the code's 24*60*60*1000 ms).           *)
(*                                                                         *)
(* Concurrency.  The Flask server runs one thread per request and db.py    *)
(* commits after every statement, so a handler is a sequence of atomic     *)
(* database calls; each call is one step of the thread that runs it.       *)
(***************************************************************************)
EXTENDS Integers, Sequences, FiniteSets, TLC

VARIABLES
    clock,       \* time.time(), in ticks
    flashcards,  \* table flashcards: id -> timestamp
    reviews,     \* table srs_reviews: card_id -> row
    stats,       \* table srs_stats, the row with id = 1
    settings,    \* table srs_settings, the row with id = 'default'
    pc,          \* per request thread: the database call it runs next
    req,         \* per request thread: the request being served
    loc,         \* per request thread: the handler's local variables
    resp,        \* the response sent last, by any thread
    correct_days \* history: the UTC days on which a correct review was stored

vars == <<clock, flashcards, reviews, stats, settings, pc, req, loc, resp,
          correct_days>>

----------------------------------------------------------------------------
(* Bounds of the model *)

MaxClock == 2
MaxReviews == 2
MaxLimit == 2
MaxLongReviews == 23
MaxInterval == 20000
MaxUiDifficulty == 6
MaxDelta == 1
MaxStat == 2
MaxShortReviews == 10
MaxStreakClock == 9
MaxStreakReviews == 4
MaxStreakCards == 366

Cards == {"a", "b"}
Threads == {1, 2}
Difficulties == 1..5
Limits == 1..MaxLimit

----------------------------------------------------------------------------
(* Program constants *)

INITIAL_INTERVAL == 1
DayTicks == 2

\* The UTC day of the timestamp ts, as time.gmtime(ts / 1000) dates it.  The
\* clock of the model counts from the start of the server, decades after the
\* epoch; the timestamp 0 of a row that was never reviewed is 1970-01-01.
EpochDay == -20000
\* The length of the walk back in get_srs_streak.
StreakCap == 365
DayOf(ts) == IF ts = 0 THEN EpochDay ELSE ts \div DayTicks

\* The days with a correct review, after the review with difficulty stored
\* at time now.
DaysAfterReview(days, difficulty, now) ==
    IF difficulty <= 3 THEN days \cup {DayOf(now)} ELSE days

----------------------------------------------------------------------------
(* Python floats *)

Min(x, y) == IF x <= y THEN x ELSE y
Max(x, y) == IF x >= y THEN x ELSE y

\* The double cent/100 + err * 2^-58 / 100.
Dbl(cent, err) == [cent |-> cent, err |-> err]

\* The decimal literals of services.py, as the doubles Python reads them as.
D_0_1 == Dbl(10, 160)
D_0_08 == Dbl(8, 48)
D_0_02 == Dbl(2, 12)
D_0_8 == Dbl(80, 1280)
D_0_28 == Dbl(28, 768)
MIN_EASE_FACTOR == Dbl(130, 1280)
MAX_EASE_FACTOR == Dbl(250, 0)
INITIAL_EASE_FACTOR == Dbl(250, 0)

\* a >= b on doubles (err is far below one hundredth).
DblGE(a, b) == a.cent > b.cent \/ (a.cent = b.cent /\ a.err >= b.err)
DblNeg(a) == Dbl(-a.cent, -a.err)

\* Python's min(a, b) and max(a, b): the first argument unless the second
\* is strictly smaller (larger).
DblMin(a, b) == IF DblGE(a, b) /\ a # b THEN b ELSE a
DblMax(a, b) == IF DblGE(a, b) THEN a ELSE b

\* k * x for the int k in {0, 1, 2}: exact in binary floating point.
DblTimes(k, x) == Dbl(k * x.cent, k * x.err)

\* k * m >= 2^j, for the magnitude m and 2^j given as bound hundredths
\* over k.
DblAtLeast(m, k, bound) ==
    k * m.cent > bound \/ (k * m.cent = bound /\ m.err >= 0)

\* The distance between neighbouring doubles around the magnitude m, in
\* units of 2^-58: 2^-51 in [2, 4), 2^-52 in [1, 2), ... one unit below 2^-5.
DblSpacing(m) ==
    IF DblAtLeast(m, 1, 200) THEN 128
    ELSE IF DblAtLeast(m, 1, 100) THEN 64
    ELSE IF DblAtLeast(m, 1, 50) THEN 32
    ELSE IF DblAtLeast(m, 1, 25) THEN 16
    ELSE IF DblAtLeast(m, 2, 25) THEN 8
    ELSE IF DblAtLeast(m, 4, 25) THEN 4
    ELSE IF DblAtLeast(m, 8, 25) THEN 2
    ELSE 1

RECURSIVE PowMod(_, _)
\* 2^n modulo m.
PowMod(n, m) == IF n = 0 THEN 1 % m ELSE (2 * PowMod(n - 1, m)) % m

\* 2^58 modulo 200 * s, for the spacings s.
TwoPow58Mod == [s \in {2, 4, 8, 16, 32, 64, 128} |-> PowMod(58, 200 * s)]

\* The offset that rounds N to the nearest multiple of the spacing s, ties
\* to the even multiple, from r2 = N modulo 2s.
DblRoundOffset(r2, s) ==
    IF 2 * (r2 % s) < s THEN -(r2 % s)
    ELSE IF 2 * (r2 % s) > s THEN s - (r2 % s)
    ELSE IF r2 < s THEN -(r2 % s) ELSE s - (r2 % s)

\* The magnitude m rounded to the spacing s; N = m * 2^58.
DblRoundTo(m, s) ==
    IF s = 1 THEN m
    ELSE Dbl(m.cent,
             m.err + 100 * DblRoundOffset(
                 ((m.cent * TwoPow58Mod[s] + m.err) % (200 * s)) \div 100, s))

\* The double nearest to the exact value x (a multiple of 2^-58), ties to
\* the even neighbour.
DblRound(x) ==
    IF x.cent > 0 \/ (x.cent = 0 /\ x.err >= 0)
    THEN DblRoundTo(x, DblSpacing(x))
    ELSE DblNeg(DblRoundTo(DblNeg(x), DblSpacing(DblNeg(x))))

\* a + b and a - b in double arithmetic.
DblAdd(a, b) == DblRound(Dbl(a.cent + b.cent, a.err + b.err))
DblSub(a, b) == DblAdd(a, DblNeg(b))

RECURSIVE CeilPow2(_)
\* The least power of two that is >= q, for q >= 1.
CeilPow2(q) == IF q <= 1 THEN 1 ELSE 2 * CeilPow2((q + 1) \div 2)

\* Python's int(n * x) for the int n and the double x: the double product,
\* truncated toward zero.  The decimal product n * cent / 100 is either
\* away from every integer by a hundredth, or the integer q itself; in the
\* second case the double product falls short of q when n * err lies more
\* than half a spacing below it.
DblTruncMul(n, x) ==
    LET p == n * x.cent
        a == IF p >= 0 THEN p ELSE -p
        q == a \div 100
        sgn == IF p >= 0 THEN 1 ELSE -1
        short == -(n * x.err * sgn)
    IN  IF a % 100 # 0 \/ p = 0 THEN sgn * q
        ELSE IF short > 1600 * CeilPow2(q) THEN sgn * (q - 1)
        ELSE sgn * q

----------------------------------------------------------------------------
(* SRSService: the pure part of the handlers *)

InitialRow_DueTomorrow(card_id, now) ==
    [card_id |-> card_id,
     interval_days |-> INITIAL_INTERVAL,
     ease_factor |-> INITIAL_EASE_FACTOR,
     repetition |-> 0,
     next_review |-> now + DayTicks,
     last_review |-> 0,
     difficulty |-> 3,
     streak |-> 0]

\* The row initialize_card builds for card_id at time now.
InitialRow(card_id, now) ==
    [card_id |-> card_id,
     interval_days |-> INITIAL_INTERVAL,
     ease_factor |-> INITIAL_EASE_FACTOR,
     repetition |-> 0,
     next_review |-> now,
     last_review |-> 0,
     difficulty |-> 3,
     streak |-> 0]

WasCorrect_Strict(difficulty) == difficulty < 3

\* review_card: was_correct = difficulty <= 3.
WasCorrect(difficulty) == difficulty <= 3

ReviewStreak_KeptOnFailure(streak, difficulty) ==
    IF WasCorrect(difficulty) THEN streak + 1 ELSE streak

\* review_card, "Update streak".
ReviewStreak(streak, difficulty) ==
    IF WasCorrect(difficulty) THEN streak + 1 ELSE 0

\* review_card, "Easy responses": the term added to the ease factor,
\* 0.1 - (3 - difficulty) * (0.08 + (3 - difficulty) * 0.02).
EasyDelta ==
    [difficulty \in {1, 2} |->
        DblSub(D_0_1,
               DblTimes(3 - difficulty,
                        DblAdd(D_0_08, DblTimes(3 - difficulty, D_0_02))))]

\* review_card, "SuperMemo 2 algorithm": the ease factor after the rating.
ReviewEase(ease, difficulty) ==
    IF difficulty < 3
    THEN DblMin(MAX_EASE_FACTOR, DblAdd(ease, EasyDelta[difficulty]))
    ELSE IF difficulty > 3
    THEN DblMax(MIN_EASE_FACTOR,
                DblSub(DblSub(DblSub(ease, D_0_8),
                              DblTimes(difficulty - 4, D_0_28)),
                       DblTimes((difficulty - 4) * (difficulty - 4), D_0_02)))
    ELSE ease

ReviewInterval_SixDaysFirst(interval, repetition, ease, difficulty) ==
    IF WasCorrect(difficulty)
    THEN IF repetition = 0 THEN 6
         ELSE DblTruncMul(interval, ease)
    ELSE 1

ReviewInterval_Clamped(interval, repetition, ease, difficulty) ==
    IF WasCorrect(difficulty)
    THEN IF repetition = 0 THEN 1
         ELSE IF repetition = 1 THEN 6
         ELSE Min(365, DblTruncMul(interval, ease))
    ELSE 1

\* review_card: the interval after the rating; ease is the updated ease.
ReviewInterval(interval, repetition, ease, difficulty) ==
    IF WasCorrect(difficulty)
    THEN IF repetition = 0 THEN 1
         ELSE IF repetition = 1 THEN 6
         ELSE DblTruncMul(interval, ease)
    ELSE 1

\* review_card: the repetition count after the rating.
ReviewRepetition(repetition, difficulty) ==
    IF WasCorrect(difficulty) THEN repetition + 1 ELSE 0

\* review_card: the row it upserts, from the row it read, at time now.
ReviewApply(review, difficulty, now) ==
    LET ease == ReviewEase(review.ease_factor, difficulty)
        interval == ReviewInterval(review.interval_days, review.repetition,
                                   ease, difficulty)
    IN  [card_id |-> review.card_id,
         interval_days |-> interval,
         ease_factor |-> ease,
         repetition |-> ReviewRepetition(review.repetition, difficulty),
         next_review |-> now + interval * DayTicks,
         last_review |-> now,
         difficulty |-> difficulty,
         streak |-> ReviewStreak(review.streak, difficulty)]

\* preview_review, "Ease factor adjustments": the term added for an easy
\* rating, 0.1 - (3 - difficulty) * (0.08 + (3 - difficulty) * 0.02).
PreviewEasyDelta ==
    [difficulty \in {1, 2} |->
        DblSub(D_0_1,
               DblTimes(3 - difficulty,
                        DblAdd(D_0_08, DblTimes(3 - difficulty, D_0_02))))]

\* preview_review: the predicted ease factor.
PreviewEase(ease, difficulty) ==
    IF difficulty < 3
    THEN DblMin(MAX_EASE_FACTOR, DblAdd(ease, PreviewEasyDelta[difficulty]))
    ELSE IF difficulty > 3
    THEN DblMax(MIN_EASE_FACTOR,
                DblSub(DblSub(DblSub(ease, D_0_8),
                              DblTimes(difficulty - 4, D_0_28)),
                       DblTimes((difficulty - 4) * (difficulty - 4), D_0_02)))
    ELSE ease

\* PreviewInterval with the second step of the ladder left out.
PreviewInterval_NoSixDays(interval, repetition, ease, difficulty) ==
    IF difficulty <= 3
    THEN IF repetition = 0 THEN 1
         ELSE DblTruncMul(interval, ease)
    ELSE 1

\* preview_review: the predicted interval; ease is the predicted ease.
PreviewInterval(interval, repetition, ease, difficulty) ==
    IF difficulty <= 3
    THEN IF repetition = 0 THEN 1
         ELSE IF repetition = 1 THEN 6
         ELSE DblTruncMul(interval, ease)
    ELSE 1

\* preview_review: the predicted repetition count.
PreviewRepetition(repetition, difficulty) ==
    IF difficulty <= 3 THEN repetition + 1 ELSE 0

\* PreviewCompute with the next review counted from the last review.
PreviewCompute_FromLastReview(existing, difficulty, now) ==
    LET ease == PreviewEase(existing.ease_factor, difficulty)
        interval == PreviewInterval(existing.interval_days, existing.repetition,
                                    ease, difficulty)
    IN  [card_id |-> existing.card_id,
         predicted_interval_days |-> interval,
         predicted_next_review |-> existing.last_review + interval * DayTicks,
         predicted_ease_factor |-> ease,
         predicted_repetition |-> PreviewRepetition(existing.repetition, difficulty),
         was_correct |-> difficulty <= 3,
         difficulty |-> difficulty,
         current |-> existing,
         streak_if_correct |-> IF difficulty <= 3 THEN existing.streak + 1 ELSE 0]

\* preview_review: the dict it returns for the row existing, at time now.
PreviewCompute(existing, difficulty, now) ==
    LET ease == PreviewEase(existing.ease_factor, difficulty)
        interval == PreviewInterval(existing.interval_days, existing.repetition,
                                    ease, difficulty)
    IN  [card_id |-> existing.card_id,
         predicted_interval_days |-> interval,
         predicted_next_review |-> now + interval * DayTicks,
         predicted_ease_factor |-> ease,
         predicted_repetition |-> PreviewRepetition(existing.repetition, difficulty),
         was_correct |-> difficulty <= 3,
         difficulty |-> difficulty,
         current |-> existing,
         streak_if_correct |-> IF difficulty <= 3 THEN existing.streak + 1 ELSE 0]

----------------------------------------------------------------------------
(* db.py: the tables *)

HasRow(table, key) == key \in DOMAIN table

Upsert_Alone(table, key, row) == [k \in {key} |-> row]

\* INSERT OR REPLACE of one row.
Upsert(table, key, row) ==
    [k \in (DOMAIN table) \cup {key} |-> IF k = key THEN row ELSE table[k]]

\* DELETE of one row.
Remove(table, key) == [k \in (DOMAIN table) \ {key} |-> table[k]]

\* update_srs_stats: the relative UPDATE of the singleton row.
StatsAfter(st, total_delta, correct_delta, now) ==
    [total_reviews |-> st.total_reviews + total_delta,
     correct_answers |-> st.correct_answers + correct_delta,
     last_updated |-> now]

\* The orderings of the keys of table by ascending rank (rows of equal rank
\* in either order), as an ORDER BY produces them.
Ordered(keys, rank) ==
    {s \in [1..Cardinality(keys) -> keys] :
        /\ \A i, j \in DOMAIN s : i < j => s[i] # s[j] /\ rank[s[i]] <= rank[s[j]]}

\* The first n elements of the sequence s: LIMIT n.
Limit(s, n) == SubSeq(s, 1, Min(n, Len(s)))

\* DueKeys with the rows due exactly now left out.
DueKeys_StrictlyBefore(table, now) ==
    {c \in DOMAIN table : table[c].next_review < now}

\* The rows due at time now: WHERE next_review <= now.
DueKeys(table, now) == {c \in DOMAIN table : table[c].next_review <= now}

\* get_cards_due_for_review(limit) at time now: the lists of rows the
\* SELECT ... WHERE next_review <= ? ORDER BY next_review LIMIT ? can return.
DueResults(table, now, limit) ==
    LET rank == [c \in DOMAIN table |-> table[c].next_review]
    IN  {[i \in DOMAIN Limit(s, limit) |-> table[s[i]]] :
            s \in Ordered(DueKeys(table, now), rank)}

\* get_flashcards(limit), limit >= 1: the lists of ids that
\* SELECT ... ORDER BY timestamp DESC LIMIT ? can return.
RecentResults(cards, limit) ==
    LET rank == [c \in DOMAIN cards |-> -cards[c]]
    IN  {Limit(s, limit) : s \in Ordered(DOMAIN cards, rank)}

----------------------------------------------------------------------------
(* db.py: the settings profile *)

DefaultSettings_NewCreation(created_at, now) ==
    [id |-> "default",
     min_ease_factor |-> 130,
     max_ease_factor |-> 250,
     initial_ease_factor |-> 250,
     initial_interval |-> 1,
     second_interval |-> 6,
     max_difficulty |-> 5,
     correct_threshold |-> 3,
     max_interval |-> 365,
     created_at |-> now,
     updated_at |-> now]

\* The row of srs_settings that init_db and reset_srs_settings_to_defaults
\* write.  The float columns are in hundredths (1.3 is 130): the code only
\* stores and compares them.  The columns name, easy_bonus, easy_penalty,
\* easy_penalty_multiplier, hard_penalty, hard_penalty_linear,
\* hard_penalty_quadratic, graduation_interval, min_interval,
\* lapse_multiplier and lapse_min_interval are stored the same way and are
\* left out.
DefaultSettings(created_at, now) ==
    [id |-> "default",
     min_ease_factor |-> 130,
     max_ease_factor |-> 250,
     initial_ease_factor |-> 250,
     initial_interval |-> 1,
     second_interval |-> 6,
     max_difficulty |-> 5,
     correct_threshold |-> 3,
     max_interval |-> 365,
     created_at |-> created_at,
     updated_at |-> now]

----------------------------------------------------------------------------
(* Thread-local records *)

NoReq == [op |-> "none", card |-> "", difficulty |-> 0, limit |-> 0]
NoLoc == [review |-> <<>>, now |-> 0, recent |-> <<>>, i |-> 0, seeded |-> 0,
          deleted |-> FALSE]
NoResp == [kind |-> "none", op |-> "none", review |-> <<>>, cards |-> <<>>,
           preview |-> <<>>, streak |-> <<>>, server_time |-> 0]

ErrorResp(op, now) ==
    [NoResp EXCEPT !.kind = "error", !.op = op, !.server_time = now]
ReviewResp(row, now) ==
    [NoResp EXCEPT !.kind = "review", !.op = "review", !.review = <<row>>,
                   !.server_time = now]
PreviewResp(preview, now) ==
    [NoResp EXCEPT !.kind = "preview", !.op = "preview",
                   !.preview = <<preview>>, !.server_time = now]
DueResp(cards, now) ==
    [NoResp EXCEPT !.kind = "due", !.op = "due", !.cards = cards,
                   !.server_time = now]
\* GET /srs/streak: {"success": True, **streak_info}.
StreakResp(info, now) ==
    [NoResp EXCEPT !.kind = "streak", !.op = "streak", !.streak = <<info>>,
                   !.server_time = now]
CreatedResp(now) ==
    [NoResp EXCEPT !.kind = "created", !.op = "create", !.server_time = now]
\* A 400 response of the endpoint op, and a plain {"success": True} one.
InvalidResp(op, now) ==
    [NoResp EXCEPT !.kind = "invalid", !.op = op, !.server_time = now]
OkResp(op, now) ==
    [NoResp EXCEPT !.kind = "ok", !.op = op, !.server_time = now]
\* The 404 response of DELETE /flashcards/<card_id>.
NotFoundResp(now) ==
    [NoResp EXCEPT !.kind = "not_found", !.op = "delete", !.server_time = now]

\* init_db on an empty database file; every request thread idle.
Init ==
    /\ clock = 1
    /\ flashcards = <<>>
    /\ reviews = <<>>
    /\ stats = [total_reviews |-> 0, correct_answers |-> 0, last_updated |-> 1]
    /\ settings = DefaultSettings(1, 1)
    /\ pc = [t \in Threads |-> "idle"]
    /\ req = [t \in Threads |-> NoReq]
    /\ loc = [t \in Threads |-> NoLoc]
    /\ resp = NoResp
    /\ correct_days = {}

\* The wall clock advances.
Tick ==
    /\ clock < MaxClock
    /\ clock' = clock + 1
    /\ UNCHANGED <<flashcards, reviews, stats, pc, req, loc, resp, settings,
                 correct_days>>

----------------------------------------------------------------------------
(* One client, one request at a time: each handler runs to completion.     *)

\* POST /flashcards for a new card: insert_flashcard, then initialize_card.
SerialCreate(c) ==
    /\ \A t \in Threads : pc[t] = "idle"
    /\ ~HasRow(flashcards, c)
    /\ flashcards' = Upsert(flashcards, c, clock)
    /\ reviews' = Upsert(Remove(reviews, c), c, InitialRow(c, clock))
    /\ UNCHANGED <<clock, stats, pc, req, loc, resp, settings, correct_days>>

\* SRSService.review_card(c, d) on a card that has its row.
SerialReview(c, d) ==
    /\ \A t \in Threads : pc[t] = "idle"
    /\ HasRow(flashcards, c)
    /\ HasRow(reviews, c)
    /\ stats.total_reviews < MaxLongReviews
    /\ \E new \in {ReviewApply(reviews[c], d, clock)} :
           /\ new.interval_days <= MaxInterval
           /\ new.interval_days >= -MaxInterval
           /\ reviews' = Upsert(reviews, c, new)
           /\ stats' = StatsAfter(stats, 1, IF WasCorrect(d) THEN 1 ELSE 0, clock)
    /\ correct_days' = DaysAfterReview(correct_days, d, clock)
    /\ UNCHANGED <<clock, flashcards, pc, req, loc, resp, settings>>

NextLong ==
    \/ SerialCreate("a")
    \/ \E d \in Difficulties : SerialReview("a", d)

SpecLong == Init /\ [][NextLong]_vars

\* One card and a short run of reviews, one caller.
NextShort ==
    \/ SerialCreate("a")
    \/ \E d \in Difficulties :
           stats.total_reviews < MaxShortReviews /\ SerialReview("a", d)

SpecShort == Init /\ [][NextShort]_vars

----------------------------------------------------------------------------
(* The endpoints of app.py, one request at a time: each handler runs to     *)
(* completion.                                                               *)

\* The ratings a client can send, and the relative adjustments of the stats.
UiDifficulties == 0..MaxUiDifficulty
StatDeltas == (-MaxDelta)..MaxDelta

\* The JSON bodies of POST /srs/review: card_id and difficulty, either of
\* which can be missing; card_id can be the empty string.
ReviewRequests ==
    {[card_id |-> c, difficulty |-> d] : c \in {"", "a"}, d \in UiDifficulties}
        \cup {[card_id |-> "a"]}
        \cup {[difficulty |-> d] : d \in UiDifficulties}

\* process_srs_review: the rating of the UI as the difficulty of review_card.
map_ui_to_backend(d) ==
    IF d = 1 THEN 4
    ELSE IF d = 2 THEN 3
    ELSE IF d = 3 THEN 2
    ELSE IF d = 4 THEN 1
    ELSE 2

\* process_srs_review: the checks that answer 400.
ReviewRequestRejected(data) ==
    \/ "card_id" \notin DOMAIN data
    \/ data.card_id = ""
    \/ "difficulty" \notin DOMAIN data

\* POST /srs/review with the body data: the checks, then review_card with
\* the mapped difficulty (read or initialize the row, write it, count it).
\* A card is reviewed at most once per clock tick.
ProcessSrsReview(data) ==
    /\ \A t \in Threads : pc[t] = "idle"
    /\ IF ReviewRequestRejected(data)
       THEN /\ resp' = InvalidResp("review", clock)
            /\ UNCHANGED <<reviews, stats, correct_days>>
       ELSE IF ~HasRow(reviews, data.card_id) /\ ~HasRow(flashcards, data.card_id)
       THEN /\ resp' = ErrorResp("review", clock)
            /\ UNCHANGED <<reviews, stats, correct_days>>
       ELSE \E row \in {IF HasRow(reviews, data.card_id)
                        THEN reviews[data.card_id]
                        ELSE InitialRow(data.card_id, clock)} :
            \E new \in {ReviewApply(row, map_ui_to_backend(data.difficulty), clock)} :
                /\ row.last_review < clock
                /\ reviews' = Upsert(reviews, data.card_id, new)
                /\ stats' = StatsAfter(stats, 1,
                       IF WasCorrect(map_ui_to_backend(data.difficulty))
                       THEN 1 ELSE 0, clock)
                /\ resp' = ReviewResp(new, clock)
                /\ correct_days' = DaysAfterReview(correct_days, new.difficulty,
                                                   clock)
    /\ UNCHANGED <<clock, flashcards, settings, pc, req, loc>>

\* POST /srs/stats with the body {total_reviews_delta, correct_answers_delta}.
UpdateSrsStatsEndpoint(total_reviews_delta, correct_answers_delta) ==
    /\ \A t \in Threads : pc[t] = "idle"
    /\ \E new \in {StatsAfter(stats, total_reviews_delta, correct_answers_delta,
                              clock)} :
           /\ new.total_reviews \in (-MaxStat)..MaxStat
           /\ new.correct_answers \in (-MaxStat)..MaxStat
           /\ stats' = new
    /\ resp' = OkResp("stats", clock)
    /\ UNCHANGED <<clock, flashcards, reviews, settings, correct_days, pc, req, loc>>

\* The JSON bodies of POST /srs/settings: one or two fields, floats in
\* hundredths.  "id", "created_at" and "updated_at" are keys a client can
\* send like any other.
SettingsRequests ==
    {[min_ease_factor |-> v] : v \in {75, 200, 275}}
        \cup {[max_ease_factor |-> v] : v \in {150, 200}}
        \cup {[min_ease_factor |-> v, max_ease_factor |-> w] :
                 v \in {200, 275}, w \in {150, 200}}
        \cup {[correct_threshold |-> v] : v \in {2, 5}}
        \cup {[correct_threshold |-> v, max_difficulty |-> 3] : v \in {2, 5}}
        \cup {[initial_interval |-> v] : v \in {0, 3}}
        \cup {[second_interval |-> 4], [max_interval |-> 0]}
        \cup {[id |-> "other", second_interval |-> 4],
              [created_at |-> 0, initial_interval |-> 3],
              [updated_at |-> 0, initial_interval |-> 3]}

\* update_srs_settings (endpoint): data.get(key) is not None.
Given(data, key) == key \in DOMAIN data

\* update_srs_settings (endpoint): validation_errors.
SettingsErrors_NoBoundsOrder(data) ==
    {e \in {"min_range", "max_range", "initial_interval", "second_interval",
            "max_interval", "threshold_order"} :
        \/ e = "min_range" /\ Given(data, "min_ease_factor")
              /\ (data.min_ease_factor < 100 \/ data.min_ease_factor > 300)
        \/ e = "max_range" /\ Given(data, "max_ease_factor")
              /\ (data.max_ease_factor < 100 \/ data.max_ease_factor > 500)
        \/ e = "initial_interval" /\ Given(data, "initial_interval")
              /\ data.initial_interval < 1
        \/ e = "second_interval" /\ Given(data, "second_interval")
              /\ data.second_interval < 1
        \/ e = "max_interval" /\ Given(data, "max_interval")
              /\ data.max_interval < 1
        \/ e = "threshold_order" /\ Given(data, "correct_threshold")
              /\ Given(data, "max_difficulty")
              /\ data.correct_threshold >= data.max_difficulty}

SettingsErrors(data) ==
    {e \in {"bounds_order", "min_range", "max_range", "initial_interval",
            "second_interval", "max_interval", "threshold_order"} :
        \/ e = "bounds_order" /\ Given(data, "min_ease_factor")
              /\ Given(data, "max_ease_factor")
              /\ data.min_ease_factor >= data.max_ease_factor
        \/ e = "min_range" /\ Given(data, "min_ease_factor")
              /\ (data.min_ease_factor < 100 \/ data.min_ease_factor > 300)
        \/ e = "max_range" /\ Given(data, "max_ease_factor")
              /\ (data.max_ease_factor < 100 \/ data.max_ease_factor > 500)
        \/ e = "initial_interval" /\ Given(data, "initial_interval")
              /\ data.initial_interval < 1
        \/ e = "second_interval" /\ Given(data, "second_interval")
              /\ data.second_interval < 1
        \/ e = "max_interval" /\ Given(data, "max_interval")
              /\ data.max_interval < 1
        \/ e = "threshold_order" /\ Given(data, "correct_threshold")
              /\ Given(data, "max_difficulty")
              /\ data.correct_threshold >= data.max_difficulty}

\* db.update_srs_settings: the value of column key after the merge loop.
MergedColumn(current, data, key) ==
    IF Given(data, key) /\ key \notin {"id", "created_at"}
    THEN data[key]
    ELSE current[key]

UpdateSettings_AnyKey(current, data, now) ==
    [id |-> IF Given(data, "id") THEN data.id ELSE current.id,
     min_ease_factor |-> MergedColumn(current, data, "min_ease_factor"),
     max_ease_factor |-> MergedColumn(current, data, "max_ease_factor"),
     initial_ease_factor |-> MergedColumn(current, data, "initial_ease_factor"),
     initial_interval |-> MergedColumn(current, data, "initial_interval"),
     second_interval |-> MergedColumn(current, data, "second_interval"),
     max_difficulty |-> MergedColumn(current, data, "max_difficulty"),
     correct_threshold |-> MergedColumn(current, data, "correct_threshold"),
     max_interval |-> MergedColumn(current, data, "max_interval"),
     created_at |-> IF Given(data, "created_at") THEN data.created_at
                    ELSE current.created_at,
     updated_at |-> now]

\* db.update_srs_settings: current = get_srs_settings(), the merge loop,
\* current['updated_at'] = current_time, and the row INSERT OR REPLACE writes.
UpdateSettings(current, data, now) ==
    [id |-> MergedColumn(current, data, "id"),
     min_ease_factor |-> MergedColumn(current, data, "min_ease_factor"),
     max_ease_factor |-> MergedColumn(current, data, "max_ease_factor"),
     initial_ease_factor |-> MergedColumn(current, data, "initial_ease_factor"),
     initial_interval |-> MergedColumn(current, data, "initial_interval"),
     second_interval |-> MergedColumn(current, data, "second_interval"),
     max_difficulty |-> MergedColumn(current, data, "max_difficulty"),
     correct_threshold |-> MergedColumn(current, data, "correct_threshold"),
     max_interval |-> MergedColumn(current, data, "max_interval"),
     created_at |-> MergedColumn(current, data, "created_at"),
     updated_at |-> now]

\* POST /srs/settings.
UpdateSrsSettingsEndpoint(data) ==
    /\ \A t \in Threads : pc[t] = "idle"
    /\ IF SettingsErrors(data) # {}
       THEN /\ resp' = InvalidResp("settings", clock)
            /\ settings' = settings
       ELSE /\ settings' = UpdateSettings(settings, data, clock)
            /\ resp' = OkResp("settings", clock)
    /\ UNCHANGED <<clock, flashcards, reviews, stats, pc, req, loc,
                 correct_days>>

\* POST /srs/settings/reset: reset_srs_settings_to_defaults keeps the
\* created_at of the stored row.
ResetSrsSettings ==
    /\ \A t \in Threads : pc[t] = "idle"
    /\ settings' = DefaultSettings(settings.created_at, clock)
    /\ resp' = OkResp("reset", clock)
    /\ UNCHANGED <<clock, flashcards, reviews, stats, pc, req, loc,
                 correct_days>>

\* One client of the settings endpoints.
NextSettings ==
    \/ Tick
    \/ \E data \in SettingsRequests : UpdateSrsSettingsEndpoint(data)
    \/ ResetSrsSettings

SpecSettings == Init /\ [][NextSettings]_vars

\* One client of the settings endpoints who also creates and reviews card "a".
NextProfile ==
    \/ Tick
    \/ SerialCreate("a")
    \/ \E data \in ReviewRequests : ProcessSrsReview(data)
    \/ \E data \in SettingsRequests : UpdateSrsSettingsEndpoint(data)
    \/ ResetSrsSettings

SpecProfile == Init /\ [][NextProfile]_vars

NextApi ==
    \/ Tick
    \/ SerialCreate("a")
    \/ \E data \in ReviewRequests : ProcessSrsReview(data)
    \/ \E td, cd \in StatDeltas : UpdateSrsStatsEndpoint(td, cd)

SpecApi == Init /\ [][NextApi]_vars

----------------------------------------------------------------------------
(* The review streak: db.get_srs_streak and GET /srs/streak *)

\* The loop over the srs_reviews rows: the UTC day of last_review of every
\* row whose stored difficulty is at most 3.
DaysWithReview(table) ==
    {DayOf(table[c].last_review) :
        c \in {k \in DOMAIN table : table[k].difficulty <= 3}}

\* for i in range(0, 365): the walk back from today counts the days with a
\* review and breaks at the first day without one; the count is the index
\* at which the loop ends.
StreakWalk_Uncapped(days, today) ==
    CHOOSE i \in 0..Cardinality(days) :
        /\ (today - i) \notin days
        /\ \A j \in 0..(i - 1) : (today - j) \in days
StreakWalk(days, today) ==
    CHOOSE i \in 0..StreakCap :
        /\ i = StreakCap \/ (today - i) \notin days
        /\ \A j \in 0..(i - 1) : (today - j) \in days

GetSrsStreak(table, now) ==
    LET days_with_review == DaysWithReview(table)
    IN  IF days_with_review = {}
        THEN [streak |-> 0, today_has_review |-> FALSE]
        ELSE [streak |-> StreakWalk(days_with_review, DayOf(now)),
              today_has_review |-> DayOf(now) \in days_with_review]

\* GET /srs/streak.
FetchSrsStreak ==
    /\ \A t \in Threads : pc[t] = "idle"
    /\ resp' = StreakResp(GetSrsStreak(reviews, clock), clock)
    /\ UNCHANGED <<clock, flashcards, reviews, stats, settings, pc, req, loc,
                 correct_days>>

\* The wall clock passes midnight UTC.
TickDay ==
    /\ clock + DayTicks <= MaxStreakClock
    /\ clock' = clock + DayTicks
    /\ UNCHANGED <<flashcards, reviews, stats, pc, req, loc, resp, settings,
                 correct_days>>

\* One client who reviews cards "a" and "b" over several days and asks for
\* the streak.
NextStreak ==
    \/ TickDay
    \/ \E c \in Cards : SerialCreate(c)
    \/ \E c \in Cards, d \in {2, 4} :
           stats.total_reviews < MaxStreakReviews /\ SerialReview(c, d)
    \/ FetchSrsStreak

SpecStreak == Init /\ [][NextStreak]_vars

\* A database in which n cards, numbered from 1, were each created and
\* reviewed once, one card a day on consecutive days; card 1 was reviewed
\* last, gap days before today, with difficulty d, the others with 2.
ReviewedAt(k, gap) == MaxStreakClock + (MaxStreakCards - (gap + k - 1)) * DayTicks
InitStreakWalk ==
    \E n \in 0..MaxStreakCards, gap \in 0..1, d \in {2, 4} :
        /\ clock = MaxStreakClock + MaxStreakCards * DayTicks
        /\ flashcards = [k \in 1..n |-> ReviewedAt(k, gap)]
        /\ reviews = [k \in 1..n |->
                         ReviewApply(InitialRow(k, ReviewedAt(k, gap)),
                                     IF k = 1 THEN d ELSE 2, ReviewedAt(k, gap))]
        /\ stats = [total_reviews |-> n,
                    correct_answers |-> IF n > 0 /\ d = 4 THEN n - 1 ELSE n,
                    last_updated |-> IF n = 0 THEN 1 ELSE ReviewedAt(1, gap)]
        /\ correct_days = {DayOf(ReviewedAt(k, gap)) :
                              k \in {j \in 1..n : j > 1 \/ d = 2}}
        /\ settings = DefaultSettings(1, 1)
        /\ pc = [t \in Threads |-> "idle"]
        /\ req = [t \in Threads |-> NoReq]
        /\ loc = [t \in Threads |-> NoLoc]
        /\ resp = NoResp

SpecStreakWalk == InitStreakWalk /\ [][FetchSrsStreak]_vars

----------------------------------------------------------------------------
(* Request threads: one step per database call *)

\* The reviews that have been started and can still reach the stats update.
ReviewsStarted ==
    stats.total_reviews
        + Cardinality({t \in Threads : pc[t] \in {"rv_init", "rv_write", "rv_stats"}})

\* A thread sends the response r and waits for its next request.
Finish(t, r) ==
    /\ pc' = [pc EXCEPT ![t] = "idle"]
    /\ req' = [req EXCEPT ![t] = NoReq]
    /\ loc' = [loc EXCEPT ![t] = NoLoc]
    /\ resp' = r

\* A thread goes on to the database call at label, with the locals l.
Goto(t, label, l) ==
    /\ pc' = [pc EXCEPT ![t] = label]
    /\ loc' = [loc EXCEPT ![t] = l]
    /\ resp' = resp

\* review_card(c, d): review = get_srs_review(card_id), and now.
ReviewRead(t, c, d) ==
    /\ pc[t] = "idle"
    /\ ReviewsStarted < MaxReviews
    /\ req' = [req EXCEPT ![t] = [NoReq EXCEPT !.op = "review", !.card = c,
                                                !.difficulty = d]]
    /\ IF HasRow(reviews, c)
       THEN Goto(t, "rv_write", [NoLoc EXCEPT !.review = <<reviews[c]>>,
                                              !.now = clock])
       ELSE Goto(t, "rv_init", NoLoc)
    /\ UNCHANGED <<clock, flashcards, reviews, stats, settings, correct_days>>

\* review_card: review = SRSService.initialize_card(card_id).  The foreign
\* key of srs_reviews rejects a card_id that is no flashcard.
ReviewInit(t) ==
    /\ pc[t] = "rv_init"
    /\ IF HasRow(flashcards, req[t].card)
       THEN /\ reviews' = Upsert(reviews, req[t].card,
                                 InitialRow(req[t].card, clock))
            /\ Goto(t, "rv_write",
                    [NoLoc EXCEPT !.review = <<InitialRow(req[t].card, clock)>>,
                                  !.now = clock])
            /\ req' = req
       ELSE /\ Finish(t, ErrorResp("review", clock))
            /\ reviews' = reviews
    /\ UNCHANGED <<clock, flashcards, stats, settings, correct_days>>

ReviewWrite_NoForeignKey(t) ==
    /\ pc[t] = "rv_write"
    /\ reviews' = Upsert(reviews, req[t].card,
                         ReviewApply(loc[t].review[1], req[t].difficulty,
                                     loc[t].now))
    /\ Goto(t, "rv_stats", loc[t])
    /\ req' = req
    /\ correct_days' = DaysAfterReview(correct_days, req[t].difficulty, loc[t].now)
    /\ UNCHANGED <<clock, flashcards, stats, settings>>

\* review_card: upsert_srs_review(review), the row computed from the one
\* read.  The foreign key rejects the row of a flashcard deleted meanwhile.
ReviewWrite(t) ==
    /\ pc[t] = "rv_write"
    /\ IF HasRow(flashcards, req[t].card)
       THEN /\ reviews' = Upsert(reviews, req[t].card,
                                 ReviewApply(loc[t].review[1], req[t].difficulty,
                                             loc[t].now))
            /\ Goto(t, "rv_stats", loc[t])
            /\ req' = req
            /\ correct_days' = DaysAfterReview(correct_days, req[t].difficulty,
                                               loc[t].now)
       ELSE /\ Finish(t, ErrorResp("review", clock))
            /\ UNCHANGED <<reviews, correct_days>>
    /\ UNCHANGED <<clock, flashcards, stats, settings>>

\* review_card: update_srs_stats(1, 1 if was_correct else 0); return review.
ReviewStats(t) ==
    /\ pc[t] = "rv_stats"
    /\ stats' = StatsAfter(stats, 1,
                           IF WasCorrect(req[t].difficulty) THEN 1 ELSE 0, clock)
    /\ Finish(t, ReviewResp(ReviewApply(loc[t].review[1], req[t].difficulty,
                                        loc[t].now), clock))
    /\ UNCHANGED <<clock, flashcards, reviews, settings, correct_days>>

\* preview_review(c, d): existing = get_srs_review(card_id); with a row the
\* prediction is computed and returned.
PreviewRead(t, c, d) ==
    /\ pc[t] = "idle"
    /\ IF HasRow(reviews, c)
       THEN Finish(t, PreviewResp(PreviewCompute(reviews[c], d, clock), clock))
       ELSE /\ req' = [req EXCEPT ![t] = [NoReq EXCEPT !.op = "preview",
                                                       !.card = c,
                                                       !.difficulty = d]]
            /\ Goto(t, "pv_init", NoLoc)
    /\ UNCHANGED <<clock, flashcards, reviews, stats, settings, correct_days>>

\* preview_review: existing = SRSService.initialize_card(card_id), then the
\* prediction.
PreviewInit(t) ==
    /\ pc[t] = "pv_init"
    /\ IF HasRow(flashcards, req[t].card)
       THEN /\ reviews' = Upsert(reviews, req[t].card,
                                 InitialRow(req[t].card, clock))
            /\ Finish(t, PreviewResp(PreviewCompute(InitialRow(req[t].card, clock),
                                                    req[t].difficulty, clock),
                                     clock))
       ELSE /\ Finish(t, ErrorResp("preview", clock))
            /\ reviews' = reviews
    /\ UNCHANGED <<clock, flashcards, stats, settings, correct_days>>

\* create_flashcard: insert_flashcard(record).  INSERT OR REPLACE deletes a
\* flashcard of the same id, and ON DELETE CASCADE its srs_reviews row.
CreateInsert(t, c) ==
    /\ pc[t] = "idle"
    /\ req' = [req EXCEPT ![t] = [NoReq EXCEPT !.op = "create", !.card = c]]
    /\ flashcards' = Upsert(flashcards, c, clock)
    /\ reviews' = Remove(reviews, c)
    /\ Goto(t, "fc_init", NoLoc)
    /\ UNCHANGED <<clock, stats, settings, correct_days>>

CreateInit_NoRow(t) ==
    /\ pc[t] = "fc_init"
    /\ reviews' = reviews
    /\ Finish(t, CreatedResp(clock))
    /\ UNCHANGED <<clock, flashcards, stats, settings, correct_days>>

\* create_flashcard: SRSService.initialize_card(record["id"]); a failure is
\* logged and the card is reported created.
CreateInit(t) ==
    /\ pc[t] = "fc_init"
    /\ reviews' = IF HasRow(flashcards, req[t].card)
                  THEN Upsert(reviews, req[t].card, InitialRow(req[t].card, clock))
                  ELSE reviews
    /\ Finish(t, CreatedResp(clock))
    /\ UNCHANGED <<clock, flashcards, stats, settings, correct_days>>

\* list_cards_due: cards = get_cards_due_for_review(limit).
DueQuery(t, limit) ==
    /\ pc[t] = "idle"
    /\ \E cards \in DueResults(reviews, clock, limit) :
           IF cards # <<>>
           THEN Finish(t, DueResp(cards, clock))
           ELSE /\ req' = [req EXCEPT ![t] = [NoReq EXCEPT !.op = "due",
                                                           !.limit = limit]]
                /\ Goto(t, "due_scan", [NoLoc EXCEPT !.now = clock])
    /\ UNCHANGED <<clock, flashcards, reviews, stats, settings, correct_days>>

\* list_cards_due: the for loop is over, with the locals l.
DueLoopEnd(t, l) ==
    IF l.seeded > 0
    THEN /\ Goto(t, "due_requery", l)
         /\ req' = req
    ELSE Finish(t, DueResp(<<>>, clock))

\* list_cards_due: recent = get_flashcards(limit).
DueScan(t) ==
    /\ pc[t] = "due_scan"
    /\ \E recent \in RecentResults(flashcards, req[t].limit) :
           IF recent = <<>>
           THEN DueLoopEnd(t, loc[t])
           ELSE /\ Goto(t, "due_check",
                        [loc[t] EXCEPT !.recent = recent, !.i = 1])
                /\ req' = req
    /\ UNCHANGED <<clock, flashcards, reviews, stats, settings, correct_days>>

\* list_cards_due, in the loop: if not get_srs_review(fc["id"]).
DueCheck(t) ==
    /\ pc[t] = "due_check"
    /\ IF ~HasRow(reviews, loc[t].recent[loc[t].i])
       THEN /\ Goto(t, "due_seed", loc[t])
            /\ req' = req
       ELSE IF loc[t].i < Len(loc[t].recent)
       THEN /\ Goto(t, "due_check", [loc[t] EXCEPT !.i = loc[t].i + 1])
            /\ req' = req
       ELSE DueLoopEnd(t, loc[t])
    /\ UNCHANGED <<clock, flashcards, reviews, stats, settings, correct_days>>

\* list_cards_due, in the loop: SRSService.initialize_card(fc["id"]),
\* seeded += 1, break at the limit.  An exception ends the backfill.
DueSeed(t) ==
    /\ pc[t] = "due_seed"
    /\ IF ~HasRow(flashcards, loc[t].recent[loc[t].i])
       THEN /\ Finish(t, DueResp(<<>>, clock))
            /\ reviews' = reviews
       ELSE /\ reviews' = Upsert(reviews, loc[t].recent[loc[t].i],
                                 InitialRow(loc[t].recent[loc[t].i], clock))
            /\ IF loc[t].seeded + 1 < req[t].limit /\ loc[t].i < Len(loc[t].recent)
               THEN /\ Goto(t, "due_check",
                            [loc[t] EXCEPT !.seeded = loc[t].seeded + 1,
                                           !.i = loc[t].i + 1])
                    /\ req' = req
               ELSE DueLoopEnd(t, [loc[t] EXCEPT !.seeded = loc[t].seeded + 1])
    /\ UNCHANGED <<clock, flashcards, stats, settings, correct_days>>

\* list_cards_due: cards = get_cards_due_for_review(limit), after seeding.
DueRequery(t) ==
    /\ pc[t] = "due_requery"
    /\ \E cards \in DueResults(reviews, clock, req[t].limit) :
           Finish(t, DueResp(cards, clock))
    /\ UNCHANGED <<clock, flashcards, reviews, stats, settings, correct_days>>

\* delete_flashcard(c): fc = db_get_flashcard(card_id); no flashcard, no
\* deletion.
DeleteRead(t, c) ==
    /\ pc[t] = "idle"
    /\ IF HasRow(flashcards, c)
       THEN /\ req' = [req EXCEPT ![t] = [NoReq EXCEPT !.op = "delete", !.card = c]]
            /\ Goto(t, "del_row", NoLoc)
       ELSE /\ Finish(t, NotFoundResp(clock))
    /\ UNCHANGED <<clock, flashcards, reviews, stats, settings, correct_days>>

\* delete_flashcard: deleted = db_delete_flashcard(card_id).  ON DELETE
\* CASCADE deletes the srs_reviews row in the same statement.
DeleteRow(t) ==
    /\ pc[t] = "del_row"
    /\ flashcards' = Remove(flashcards, req[t].card)
    /\ reviews' = Remove(reviews, req[t].card)
    /\ Goto(t, "del_review",
            [NoLoc EXCEPT !.deleted = HasRow(flashcards, req[t].card)])
    /\ UNCHANGED <<clock, stats, settings, correct_days, req>>

\* delete_flashcard returns deleted, which the endpoint answers.
DeleteReturn(t) ==
    Finish(t, IF loc[t].deleted THEN OkResp("delete", clock)
                                ELSE NotFoundResp(clock))

\* delete_flashcard: review = db_get_srs_review(card_id).
DeleteReviewRead(t) ==
    /\ pc[t] = "del_review"
    /\ IF HasRow(reviews, req[t].card)
       THEN Goto(t, "del_cleanup", loc[t]) /\ req' = req
       ELSE DeleteReturn(t)
    /\ UNCHANGED <<clock, flashcards, reviews, stats, settings, correct_days>>

\* delete_flashcard: db_delete_srs_review(card_id); return deleted.
DeleteReviewRow(t) ==
    /\ pc[t] = "del_cleanup"
    /\ reviews' = Remove(reviews, req[t].card)
    /\ DeleteReturn(t)
    /\ UNCHANGED <<clock, flashcards, stats, settings, correct_days>>

\* The threaded server with thread 1 serving every endpoint and thread 2
\* serving POST /flashcards.
Next ==
    \/ Tick
    \/ \E c \in Cards, d \in Difficulties : ReviewRead(1, c, d)
    \/ ReviewInit(1)
    \/ ReviewWrite(1)
    \/ ReviewStats(1)
    \/ \E c \in Cards, d \in Difficulties : PreviewRead(1, c, d)
    \/ PreviewInit(1)
    \/ \E t \in Threads, c \in Cards : CreateInsert(t, c)
    \/ \E t \in Threads : CreateInit(t)
    \/ \E limit \in Limits : DueQuery(1, limit)
    \/ DueScan(1)
    \/ DueCheck(1)
    \/ DueSeed(1)
    \/ DueRequery(1)

Spec == Init /\ [][Next]_vars

\* The threaded server with both threads serving POST /srs/review and
\* POST /flashcards.
NextRace ==
    \/ Tick
    \/ \E t \in Threads :
        \/ \E c \in Cards, d \in Difficulties : ReviewRead(t, c, d)
        \/ ReviewInit(t)
        \/ ReviewWrite(t)
        \/ ReviewStats(t)
        \/ \E c \in Cards : CreateInsert(t, c)
        \/ CreateInit(t)

SpecRace == Init /\ [][NextRace]_vars

\* The threaded server with both threads serving POST /srs/review,
\* POST /srs/preview, POST /flashcards and DELETE /flashcards/<card_id> for
\* the card "a".
NextDelete ==
    \/ Tick
    \/ \E t \in Threads :
        \/ \E d \in Difficulties : ReviewRead(t, "a", d)
        \/ ReviewInit(t)
        \/ ReviewWrite(t)
        \/ ReviewStats(t)
        \/ \E d \in Difficulties : PreviewRead(t, "a", d)
        \/ PreviewInit(t)
        \/ CreateInsert(t, "a")
        \/ CreateInit(t)
        \/ DeleteRead(t, "a")
        \/ DeleteRow(t)
        \/ DeleteReviewRead(t)
        \/ DeleteReviewRow(t)

SpecDelete == Init /\ [][NextDelete]_vars

----------------------------------------------------------------------------
(* Claims about the stored rows *)

\* C1: after every review the stored ease_factor lies within
\* [min_ease_factor, max_ease_factor] = [1.3, 2.5].
C1_EaseWithinBounds ==
    \A c \in DOMAIN reviews :
        /\ DblGE(reviews[c].ease_factor, MIN_EASE_FACTOR)
        /\ DblGE(MAX_EASE_FACTOR, reviews[c].ease_factor)

\* C2: every stored row has interval_days >= 1.
C2_IntervalAtLeastOne ==
    \A c \in DOMAIN reviews : reviews[c].interval_days >= 1

\* C3: a row that has been reviewed (last_review > 0) has
\* next_review >= last_review.
C3_NextNotBeforeLast ==
    \A c \in DOMAIN reviews :
        reviews[c].last_review > 0
            => reviews[c].next_review >= reviews[c].last_review

----------------------------------------------------------------------------
(* Claims about concurrent reviews *)

\* The rows that two reviews of the row s0 leave when one runs after the
\* other, in either order and at any clock values.
SerialOutcomes(s0, d1, d2) ==
    {ReviewApply(ReviewApply(s0, d1, n1), d2, n2) : n1, n2 \in 1..MaxClock}
        \cup {ReviewApply(ReviewApply(s0, d2, n2), d1, n1) : n1, n2 \in 1..MaxClock}

\* Thread t writes its review of a card of which thread u, having read the
\* same row, has just written its own.
SecondWriteOfTwo(t, u) ==
    /\ t # u
    /\ pc[t] = "rv_write" /\ pc'[t] = "rv_stats"
    /\ pc[u] = "rv_stats"
    /\ req[u].card = req[t].card
    /\ loc[u].review = loc[t].review
    /\ HasRow(reviews, req[t].card)
    /\ reviews[req[t].card]
           = ReviewApply(loc[u].review[1], req[u].difficulty, loc[u].now)

\* C4: two review_card calls on the same card that run concurrently never
\* lose an update: the row stored in the end is the one that both reviews,
\* applied one after the other in some order, leave.
C4_NoLostUpdate ==
    [][\A t, u \in Threads :
          SecondWriteOfTwo(t, u)
              => reviews'[req[t].card]
                     \in SerialOutcomes(loc[t].review[1], req[t].difficulty,
                                        req[u].difficulty)]_vars

----------------------------------------------------------------------------
(* Claims about preview_review *)

\* A step of preview_review.
PreviewStep ==
    \E t \in Threads :
        \/ \E c \in Cards, d \in Difficulties : PreviewRead(t, c, d)
        \/ PreviewInit(t)

\* C5: preview_review leaves the stored rows, with their field values, and
\* the stats counters as they were, with and without a row for the card.
C5_PreviewPersistsNothing ==
    [][PreviewStep => reviews' = reviews /\ stats' = stats]_vars

\* C6: the prediction that preview_review returns (interval, ease factor,
\* repetition, next review, correctness) is what review_card commits on the
\* same stored row with the same difficulty at the same clock value.
C6_PreviewMatchesReview ==
    resp.kind = "preview" =>
        LET p == resp.preview[1]
            r == ReviewApply(p.current, p.difficulty, resp.server_time)
        IN  /\ p.predicted_interval_days = r.interval_days
            /\ p.predicted_ease_factor = r.ease_factor
            /\ p.predicted_repetition = r.repetition
            /\ p.predicted_next_review = r.next_review
            /\ p.was_correct = WasCorrect(p.difficulty)
            /\ p.was_correct = (r.streak > 0)

\* A preview of a row reviewed correctly twice has been returned: the
\* prediction multiplies the interval by the ease factor.
C6_Witness ==
    /\ resp.kind = "preview"
    /\ resp.preview[1].current.repetition >= 2
    /\ resp.preview[1].was_correct
    /\ resp.preview[1].predicted_interval_days > 6

\* The step returns a preview of the card and difficulty of the preview
\* returned last, with the row that preview reported still the stored one.
SecondPreviewInARow ==
    /\ resp.kind = "preview"
    /\ resp'.kind = "preview"
    /\ \E t \in Threads : pc[t] = "idle" /\ pc'[t] = "idle"
    /\ UNCHANGED <<reviews, stats, flashcards, req, loc, clock>>
    /\ resp'.preview[1].card_id = resp.preview[1].card_id
    /\ resp'.preview[1].difficulty = resp.preview[1].difficulty
    /\ HasRow(reviews, resp.preview[1].card_id)
    /\ reviews[resp.preview[1].card_id] = resp.preview[1].current

\* The two previews agree on everything but the next-review time.
SamePrediction(p, q) ==
    /\ p.predicted_interval_days = q.predicted_interval_days
    /\ p.predicted_ease_factor = q.predicted_ease_factor
    /\ p.predicted_repetition = q.predicted_repetition
    /\ p.was_correct = q.was_correct
    /\ p.current = q.current

\* C7, as the spec states it: preview_review called twice in a row for a
\* card and a difficulty, no review committed in between, returns the same
\* predictions, the next-review time included.
C7_PreviewTwiceIdentical ==
    [][SecondPreviewInARow =>
          /\ SamePrediction(resp.preview[1], resp'.preview[1])
          /\ resp'.preview[1].predicted_next_review
                 = resp.preview[1].predicted_next_review]_vars

\* C7, amended: the two previews return the same interval, ease factor,
\* repetition, correctness and current row, and a next-review time that
\* lies the same span after the time of the call.
C7_PreviewTwiceSameSchedule ==
    [][SecondPreviewInARow =>
          /\ SamePrediction(resp.preview[1], resp'.preview[1])
          /\ resp'.preview[1].predicted_next_review - resp'.server_time
                 = resp.preview[1].predicted_next_review - resp.server_time]_vars

\* A preview of a reviewed row has been returned, the row is still stored
\* and the clock has moved on: the preview called again is the second in a
\* row, at a later time.
C7_Witness ==
    /\ resp.kind = "preview"
    /\ resp.server_time < clock
    /\ resp.preview[1].current.repetition >= 1
    /\ HasRow(reviews, resp.preview[1].card_id)
    /\ reviews[resp.preview[1].card_id] = resp.preview[1].current
    /\ pc[1] = "idle"

----------------------------------------------------------------------------
(* Claims about the due list *)

\* C8: get_cards_due_for_review(limit) returns exactly the first limit
\* stored rows with next_review <= now in ascending next_review order: no
\* row with next_review > now, and no row while a due row with a strictly
\* earlier next_review is left out.
C8_DueFirstLimitAscending ==
    \A limit \in Limits : \A cards \in DueResults(reviews, clock, limit) :
        /\ \A i \in DOMAIN cards :
              /\ HasRow(reviews, cards[i].card_id)
              /\ reviews[cards[i].card_id] = cards[i]
              /\ cards[i].next_review <= clock
        /\ \A i, j \in DOMAIN cards :
              i < j => /\ cards[i].next_review <= cards[j].next_review
                       /\ cards[i].card_id # cards[j].card_id
        /\ Len(cards)
               = Min(limit, Cardinality({c \in DOMAIN reviews :
                                            reviews[c].next_review <= clock}))
        /\ \A c \in DOMAIN reviews :
              (/\ reviews[c].next_review <= clock
               /\ \A i \in DOMAIN cards : cards[i].card_id # c)
                  => \A i \in DOMAIN cards :
                         cards[i].next_review <= reviews[c].next_review

\* The due list returned last holds one of two due rows, the earlier one.
C8_Witness ==
    /\ resp.kind = "due"
    /\ resp.server_time = clock
    /\ Len(resp.cards) = 1
    /\ HasRow(reviews, resp.cards[1].card_id)
    /\ reviews[resp.cards[1].card_id] = resp.cards[1]
    /\ \E c \in DOMAIN reviews :
          /\ c # resp.cards[1].card_id
          /\ reviews[c].next_review <= clock
          /\ reviews[c].next_review > resp.cards[1].next_review

\* The labels of list_cards_due after its first query returned no cards.
BackfillLabels == {"due_scan", "due_check", "due_seed", "due_requery"}

\* Thread t ends a due operation whose first query returned no cards, while
\* a flashcard inserted before the operation began has no row to the end.
BackfillEndsWithLacking(t) ==
    /\ pc[t] \in BackfillLabels
    /\ pc'[t] = "idle"
    /\ \E f \in DOMAIN flashcards :
          /\ flashcards[f] < loc[t].now
          /\ ~HasRow(reviews', f)

\* C9: when the due query returns no cards and a flashcard has no row, the
\* due operation seeds rows for flashcards that lack one and returns a
\* non-empty list, whichever flashcards are the ones lacking a row.
C9_BackfillReturnsLacking ==
    [][\A t \in Threads :
          BackfillEndsWithLacking(t) => resp'.cards # <<>>]_vars

----------------------------------------------------------------------------
(* Claims about auto-initialization *)

\* C10: a review or preview of a card id without a stored row always
\* succeeds by initializing a fresh row, also for an id that is no
\* flashcard: neither operation answers with an error.
C10_UninitializedAlwaysSucceeds ==
    ~(resp.kind = "error" /\ resp.op \in {"review", "preview"})

----------------------------------------------------------------------------
(* Claims about validation and the stats counters *)

\* The body of a review request lacks the card id or has a difficulty
\* outside [1, 5].
ReviewRequestInvalid(data) ==
    \/ "card_id" \notin DOMAIN data
    \/ data.card_id = ""
    \/ "difficulty" \notin DOMAIN data
    \/ data.difficulty \notin 1..5

\* C11: a review request whose difficulty is out of range or whose card id
\* is missing is answered with an error (a validation error; any error
\* response is let pass here) and changes no stored row and no stats
\* counter.
C11_InvalidReviewRejected ==
    [][\A data \in ReviewRequests :
          (ReviewRequestInvalid(data) /\ ProcessSrsReview(data))
              => /\ resp'.kind \in {"invalid", "error"}
                 /\ reviews' = reviews
                 /\ stats' = stats]_vars

\* C12: correct_answers <= total_reviews in every reachable state, after
\* any review commits and relative adjustments of POST /srs/stats.
C12_CorrectAtMostTotal ==
    stats.correct_answers <= stats.total_reviews

\* The step with which thread t completes a review_card call.
ReviewCompletes(t) == pc[t] = "rv_stats" /\ pc'[t] = "idle"

\* C13: every completed review_card call adds exactly 1 to total_reviews and
\* adds 1 to correct_answers exactly when its difficulty is at most 3, in one
\* step whatever the other thread is doing, and no other step of a review
\* or of a creation touches the counters: N completed reviews grow
\* total_reviews by N under every interleaving.
C13_ReviewCountsOnce ==
    [][/\ \A t \in Threads :
             ReviewCompletes(t)
                 => /\ stats'.total_reviews = stats.total_reviews + 1
                    /\ stats'.correct_answers = stats.correct_answers
                           + (IF req[t].difficulty <= 3 THEN 1 ELSE 0)
       /\ (\A t \in Threads : ~ReviewCompletes(t))
             => /\ stats'.total_reviews = stats.total_reviews
                /\ stats'.correct_answers = stats.correct_answers]_vars

\* Two reviews of the fresh card "a" that overlapped, one with difficulty 2
\* and one with difficulty 5: the row holds only the review with difficulty
\* 2 while the counters hold both.
C13_Witness ==
    /\ \A t \in Threads : pc[t] = "idle"
    /\ stats.total_reviews = 2
    /\ stats.correct_answers = 1
    /\ HasRow(reviews, "a")
    /\ \E t0, t1 \in 1..MaxClock :
           reviews["a"] = ReviewApply(InitialRow("a", t0), 2, t1)

----------------------------------------------------------------------------
(* Claims about the settings profile *)

\* C14: the stored settings profile satisfies the cross-field constraints
\* in every reachable state: min_ease_factor < max_ease_factor and
\* correct_threshold < max_difficulty.
C14_SettingsCrossFieldConstraints ==
    /\ settings.min_ease_factor < settings.max_ease_factor
    /\ settings.correct_threshold < settings.max_difficulty

\* A body that fails validation: an ease bound out of its range, an interval
\* below one day, or a supplied pair in the wrong order (min_ease_factor 2.0
\* with max_ease_factor 1.5).
SettingsRequestInvalid(data) ==
    \/ /\ {"min_ease_factor", "max_ease_factor"} \subseteq DOMAIN data
       /\ data.min_ease_factor >= data.max_ease_factor
    \/ /\ {"correct_threshold", "max_difficulty"} \subseteq DOMAIN data
       /\ data.correct_threshold >= data.max_difficulty
    \/ "min_ease_factor" \in DOMAIN data /\ data.min_ease_factor \notin 100..300
    \/ "max_ease_factor" \in DOMAIN data /\ data.max_ease_factor \notin 100..500
    \/ \E key \in {"initial_interval", "second_interval", "max_interval"} :
           key \in DOMAIN data /\ data[key] < 1

\* C15: a settings update that fails validation is answered with the
\* validation errors and leaves every stored field, updated_at included,
\* as it was.
C15_RejectedUpdateChangesNothing ==
    [][resp'.op = "settings"
          => \A data \in SettingsRequests :
                 (SettingsRequestInvalid(data) /\ UpdateSrsSettingsEndpoint(data))
                     => /\ resp'.kind = "invalid"
                        /\ settings' = settings]_vars

\* A settings update was rejected at a later time than the last write of
\* the profile, which still holds the default ease bounds.
C15_Witness ==
    /\ resp.kind = "invalid"
    /\ resp.op = "settings"
    /\ resp.server_time > settings.updated_at
    /\ settings.min_ease_factor = 130
    /\ settings.max_ease_factor = 250

\* C16: an accepted partial settings update changes exactly the supplied
\* fields and updated_at; id and created_at keep their values even when the
\* body supplies them.
C16_PartialUpdateExact ==
    [][\A data \in SettingsRequests :
          (resp'.kind = "ok" /\ resp'.op = "settings"
              /\ UpdateSrsSettingsEndpoint(data))
              => /\ settings'.id = settings.id
                 /\ settings'.created_at = settings.created_at
                 /\ settings'.updated_at = clock
                 /\ \A key \in (DOMAIN settings) \ {"id", "created_at", "updated_at"} :
                        settings'[key] = IF key \in DOMAIN data THEN data[key]
                                         ELSE settings[key]]_vars

\* An accepted update whose body carried created_at 0 was stored: the
\* supplied initial_interval is in, created_at is what init_db wrote.
C16_Witness ==
    /\ resp.kind = "ok"
    /\ resp.op = "settings"
    /\ settings.initial_interval = 3
    /\ settings.second_interval = 4
    /\ settings.created_at = 1
    /\ settings.id = "default"
    /\ settings.updated_at = 2

\* C17: review_card computes with the active settings profile: a review is
\* counted correct exactly when its difficulty is at most correct_threshold,
\* a correct first review schedules initial_interval days and a correct
\* second one second_interval days, a failed one initial_interval days, and
\* the stored ease factor does not exceed max_ease_factor (the values of
\* max_ease_factor in SettingsRequests are exact doubles).
C17_ReviewUsesActiveSettings ==
    [][resp'.kind = "review"
          => \A data \in ReviewRequests :
                 (~ReviewRequestRejected(data) /\ ProcessSrsReview(data))
                     => LET d == map_ui_to_backend(data.difficulty)
                            old == reviews[data.card_id]
                            new == reviews'[data.card_id]
                            correct == d <= settings.correct_threshold
                        IN  /\ stats'.correct_answers = stats.correct_answers
                                   + (IF correct THEN 1 ELSE 0)
                            /\ (correct /\ old.repetition = 0)
                                   => new.interval_days = settings.initial_interval
                            /\ (correct /\ old.repetition = 1)
                                   => new.interval_days = settings.second_interval
                            /\ ~correct
                                   => new.interval_days = settings.initial_interval
                            /\ DblGE(Dbl(settings.max_ease_factor, 0),
                                     new.ease_factor)]_vars

\* C18: reset_srs_settings_to_defaults stores the fixed default profile
\* (min_ease_factor 1.3, max_ease_factor 2.5, initial_ease_factor 2.5,
\* initial_interval 1, second_interval 6, correct_threshold 3,
\* max_difficulty 5, max_interval 365) and created_at keeps the value it had.
C18_ResetYieldsDefaults ==
    [][(resp'.op = "reset" /\ ResetSrsSettings)
          => /\ settings'.min_ease_factor = 130
             /\ settings'.max_ease_factor = 250
             /\ settings'.initial_ease_factor = 250
             /\ settings'.initial_interval = 1
             /\ settings'.second_interval = 6
             /\ settings'.correct_threshold = 3
             /\ settings'.max_difficulty = 5
             /\ settings'.max_interval = 365
             /\ settings'.created_at = settings.created_at]_vars

\* A reset was the last request, at a later time than init_db wrote the
\* profile.
C18_Witness ==
    /\ resp.op = "reset"
    /\ resp.server_time = 2
    /\ settings.updated_at = 2
    /\ settings.created_at = 1
    /\ settings.second_interval = 6

----------------------------------------------------------------------------
(* Claims about deletion and creation *)

\* A delete_flashcard(c) call has started and not yet returned.
DeleteInFlight(c) ==
    \E t \in Threads :
        pc[t] \in {"del_row", "del_review", "del_cleanup"} /\ req[t].card = c

\* C19: once delete_flashcard(card_id) has completed and the card is gone,
\* no ReviewState for the card is stored, whatever review_card or
\* preview_review call is or was in flight for it.
C19_DeletedCardHasNoReviewState ==
    \A c \in Cards :
        (~HasRow(flashcards, c) /\ ~DeleteInFlight(c)) => ~HasRow(reviews, c)

\* The delete of card "a" has completed while a review_card call that read
\* the row of "a" has its write still to do.
C19_Witness ==
    /\ resp.op = "delete"
    /\ resp.kind = "ok"
    /\ ~HasRow(flashcards, "a")
    /\ ~DeleteInFlight("a")
    /\ \E t \in Threads :
           /\ pc[t] = "rv_write"
           /\ req[t].card = "a"
           /\ loc[t].review[1].repetition = 1

\* The step with which thread t completes the creation of a flashcard that
\* is still stored.
CreateCompletes(t) ==
    pc[t] = "fc_init" /\ pc'[t] = "idle" /\ HasRow(flashcards, req[t].card)

\* C20: creating a flashcard stores a ReviewState with interval 1, ease
\* factor 2.5, repetition 0, last_review 0, difficulty 3, streak 0 and
\* next_review equal to the time of the creation, and a ReviewState that has
\* not been reviewed (last_review 0) has next_review <= now at every clock
\* value: the new card is due at once and stays due until first reviewed.
C20_NewCardDueAtOnce ==
    [][/\ \A t \in Threads :
             CreateCompletes(t)
                 => /\ HasRow(reviews', req[t].card)
                    /\ reviews'[req[t].card]
                           = [card_id |-> req[t].card, interval_days |-> 1,
                              ease_factor |-> Dbl(250, 0), repetition |-> 0,
                              next_review |-> clock, last_review |-> 0,
                              difficulty |-> 3, streak |-> 0]
       /\ \A c \in DOMAIN reviews' :
             reviews'[c].last_review = 0 => reviews'[c].next_review <= clock']_vars

\* Card "a" was created at an earlier clock value, has not been reviewed and
\* is due.
C20_Witness ==
    /\ resp.kind = "created"
    /\ \A t \in Threads : pc[t] = "idle"
    /\ HasRow(flashcards, "a")
    /\ HasRow(reviews, "a")
    /\ reviews["a"].last_review = 0
    /\ reviews["a"].next_review < clock

----------------------------------------------------------------------------
(* Claims about the review algorithm *)

\* The row of card "a" as initialize_card stores it.
FreshRow(row) ==
    /\ row.interval_days = 1
    /\ row.ease_factor = Dbl(250, 0)
    /\ row.repetition = 0
    /\ row.last_review = 0

\* The row of card "a" after the first review of the fresh row, with
\* difficulty 2.
OnceReviewedRow(row) ==
    \E t0, t1 \in 1..MaxClock : row = ReviewApply(InitialRow("a", t0), 2, t1)

\* The row of card "a" after the first two reviews of the fresh row, both
\* with difficulty 2.
TwiceReviewedRow(row) ==
    \E t0, t1, t2 \in 1..MaxClock :
        row = ReviewApply(ReviewApply(InitialRow("a", t0), 2, t1), 2, t2)

\* C22 as stated: from a freshly initialized card the first review with
\* difficulty 2 yields interval_days 6 and repetition 1, and the second
\* review with difficulty 2 yields interval_days floor(6 x ease_factor).
C22_FirstReviewSixDays ==
    [][SerialReview("a", 2)
          => /\ FreshRow(reviews["a"])
                  => /\ reviews'["a"].interval_days = 6
                     /\ reviews'["a"].repetition = 1
             /\ OnceReviewedRow(reviews["a"])
                  => reviews'["a"].interval_days
                         = DblTruncMul(6, reviews'["a"].ease_factor)]_vars

\* C22, amended: from a freshly initialized card the first review with
\* difficulty 2 yields interval_days 1 and repetition 1, the second yields
\* interval_days 6 and repetition 2, and the third yields interval_days
\* floor(6 x ease_factor) = 15 and repetition 3.
C22_SecondReviewSixDays ==
    [][SerialReview("a", 2)
          => /\ FreshRow(reviews["a"])
                  => /\ reviews'["a"].interval_days = 1
                     /\ reviews'["a"].repetition = 1
             /\ OnceReviewedRow(reviews["a"])
                  => /\ reviews'["a"].interval_days = 6
                     /\ reviews'["a"].repetition = 2
             /\ TwiceReviewedRow(reviews["a"])
                  => /\ reviews'["a"].interval_days
                            = DblTruncMul(6, reviews'["a"].ease_factor)
                     /\ reviews'["a"].interval_days = 15
                     /\ reviews'["a"].repetition = 3]_vars

\* Three reviews with difficulty 2 of the fresh card have been stored.
C22_Witness ==
    /\ HasRow(reviews, "a")
    /\ stats.total_reviews = 3
    /\ stats.correct_answers = 3
    /\ reviews["a"].difficulty = 2
    /\ reviews["a"].repetition = 3
    /\ reviews["a"].interval_days = 15
    /\ reviews["a"].ease_factor = Dbl(250, 0)

\* The values floor(n * x) can take for the int n and the double x, from
\* Python's int(n * x), which truncates toward zero: the two agree unless
\* the product is negative; a negative product whose decimal value is no
\* integer has its floor one below, and one whose decimal value is an
\* integer is left open between the two.
FloorOfProduct(n, x) ==
    LET t == DblTruncMul(n, x)
        negative == n * x.cent < 0 \/ (x.cent = 0 /\ n * x.err < 0)
    IN  IF ~negative THEN {t}
        ELSE IF (n * x.cent) % 100 # 0 THEN {t - 1}
        ELSE {t - 1, t}

\* C23: on a correct rating (difficulty <= 3) interval_days becomes 1 when
\* repetition was 0, 6 when repetition was 1 and floor(previous
\* interval_days x new ease_factor) otherwise, and repetition grows by 1; on
\* an incorrect rating (4 or 5) repetition becomes 0 and interval_days 1.
C23_IntervalRule ==
    [][stats'.total_reviews # stats.total_reviews
          => \E d \in {reviews'["a"].difficulty} :
                 SerialReview("a", d)
                     => IF d <= 3
                        THEN /\ reviews'["a"].repetition = reviews["a"].repetition + 1
                             /\ reviews'["a"].interval_days
                                  \in IF reviews["a"].repetition = 0 THEN {1}
                                      ELSE IF reviews["a"].repetition = 1 THEN {6}
                                      ELSE FloorOfProduct(reviews["a"].interval_days,
                                                          reviews'["a"].ease_factor)
                        ELSE /\ reviews'["a"].repetition = 0
                             /\ reviews'["a"].interval_days = 1]_vars

\* C25: review_card does not clamp interval_days to max_interval: a correct
\* review at repetition 2 or more stores int(interval_days x ease_factor)
\* also when that exceeds the max_interval of the settings profile, so
\* interval_days <= max_interval is no invariant.
C25_IntervalNotClamped ==
    [][\A d \in 1..3 :
          (SerialReview("a", d) /\ reviews["a"].repetition >= 2)
              => \E grown \in {DblTruncMul(reviews["a"].interval_days,
                                           reviews'["a"].ease_factor)} :
                     /\ reviews'["a"].interval_days = grown
                     /\ grown > settings.max_interval
                            => reviews'["a"].interval_days > settings.max_interval]_vars

\* A run of correct reviews has left card "a" with an interval above
\* max_interval.
C25_Witness ==
    /\ HasRow(reviews, "a")
    /\ stats.correct_answers = stats.total_reviews
    /\ reviews["a"].interval_days > settings.max_interval
    /\ settings.max_interval = 365

\* C27: the stored ease_factor never increases under review_card: for every
\* difficulty in 1..5 the ease_factor after the review is at most the
\* ease_factor before it.
C27_EaseNeverIncreases ==
    [][\A d \in Difficulties :
          SerialReview("a", d)
              => DblGE(reviews["a"].ease_factor, reviews'["a"].ease_factor)]_vars

\* C28: every stored row has streak = repetition.
C28_StreakEqualsRepetition ==
    \A c \in DOMAIN reviews : reviews[c].streak = reviews[c].repetition

\* Card "a" failed a review and has had three correct ones since.
C28_Witness ==
    /\ HasRow(reviews, "a")
    /\ stats.correct_answers < stats.total_reviews
    /\ reviews["a"].repetition = 3
    /\ reviews["a"].streak = 3

----------------------------------------------------------------------------
(* Claims about what a call leaves alone *)

\* Thread t takes a step of review_card: its read, its initialization, its
\* write or its stats update.
ReviewCardStep(t) ==
    \/ pc[t] = "idle" /\ pc'[t] \in {"rv_init", "rv_write"}
    \/ pc[t] \in {"rv_init", "rv_write", "rv_stats"} /\ pc'[t] # pc[t]

\* The card of the review_card call that thread t takes a step of.
ReviewCardOf(t) == IF pc[t] = "idle" THEN req'[t].card ELSE req[t].card

\* C26: review_card(A, d) changes only A's ReviewState and the stats
\* counters: no step of it changes the ReviewState of another card, the
\* flashcards or the settings profile.
C26_ReviewTouchesOneCard ==
    [][\A t \in Threads :
          ReviewCardStep(t)
              => /\ \A c \in Cards \ {ReviewCardOf(t)} :
                        /\ HasRow(reviews', c) = HasRow(reviews, c)
                        /\ HasRow(reviews, c) => reviews'[c] = reviews[c]
                 /\ flashcards' = flashcards
                 /\ settings' = settings]_vars

\* Card "a" was reviewed after card "b" had been initialized, and the row of
\* "b" is still the fresh one.
C26_Witness ==
    /\ resp.kind = "review"
    /\ resp.review[1].card_id = "a"
    /\ HasRow(reviews, "a")
    /\ HasRow(reviews, "b")
    /\ reviews["a"].last_review = 2
    /\ reviews["b"].last_review = 0
    /\ reviews["b"].next_review = 1

\* Thread t starts the creation of a flashcard, with insert_flashcard.
CreateStarts(t) == pc[t] = "idle" /\ pc'[t] = "fc_init"

\* C29: creating a flashcard with an id that exists replaces the card's
\* ReviewState with the freshly initialized default: the insert discards the
\* stored row, the creation ends with interval_days 1, ease_factor 2.5,
\* repetition 0 and streak 0 stored, and the stats counters stay as they were.
C29_RecreateResetsReviewState ==
    [][\A t \in Threads :
          /\ CreateStarts(t)
                => /\ ~HasRow(reviews', req'[t].card)
                   /\ stats' = stats
          /\ CreateCompletes(t)
                => /\ HasRow(reviews', req[t].card)
                   /\ reviews'[req[t].card].interval_days = 1
                   /\ reviews'[req[t].card].ease_factor = Dbl(250, 0)
                   /\ reviews'[req[t].card].repetition = 0
                   /\ reviews'[req[t].card].streak = 0
                   /\ stats' = stats]_vars

\* Card "a", the only card, was created again after its review: the review
\* is counted and the stored row is the fresh one.
C29_Witness ==
    /\ resp.kind = "created"
    /\ \A t \in Threads : pc[t] = "idle"
    /\ DOMAIN flashcards = {"a"}
    /\ HasRow(reviews, "a")
    /\ stats.total_reviews = 1
    /\ reviews["a"].repetition = 0
    /\ reviews["a"].last_review = 0
    /\ reviews["a"].streak = 0

----------------------------------------------------------------------------
(* Claims about auto-initialization *)

\* Thread t takes the step of preview_review or of the due backfill that
\* calls initialize_card.
AutoInitStep(t) == pc[t] \in {"pv_init", "due_seed"} /\ pc'[t] # pc[t]

\* C24: the auto-initialization done by the due backfill and by
\* preview_review never overwrites the state a review has committed with a
\* fresh default state: a reviewed row (last_review > 0) is the same after
\* the step.
C24_AutoInitKeepsReviewedRow ==
    [][\A t \in Threads :
          AutoInitStep(t)
              => \A c \in DOMAIN reviews :
                     reviews[c].last_review > 0
                         => HasRow(reviews', c) /\ reviews'[c] = reviews[c]]_vars

----------------------------------------------------------------------------
(* Claims about the review streak *)

\* C21: when a correct review was stored on today and on the two days before
\* it, and none on the day before those, get_srs_streak returns streak 3,
\* however the reviews are spread over the cards.
C21_ThreeDayStreak ==
    LET D == DayOf(clock)
    IN  ({D, D - 1, D - 2} \subseteq correct_days /\ (D - 3) \notin correct_days)
            => GetSrsStreak(reviews, clock).streak = 3

\* C30: in every result of get_srs_streak, streak is at least 1 exactly when
\* today_has_review is true, and streak is at most 365.
C30_StreakBounds ==
    resp.kind = "streak" =>
        /\ (resp.streak[1].streak >= 1) <=> resp.streak[1].today_has_review
        /\ resp.streak[1].streak <= StreakCap

\* The walk was cut at the cap: 366 consecutive days with a correct review.
C30_Witness ==
    /\ resp.kind = "streak"
    /\ Cardinality(DaysWithReview(reviews)) = StreakCap + 1
    /\ resp.streak[1].streak = StreakCap
    /\ resp.streak[1].today_has_review

====
